---- MODULE Spec2Model ----
(***************************************************************************)
(* Model of the lamp-cluster configurator backend: canopy layout           *)
(* (build_canopy), pendant placement (place_pendants_then_plan_cables),    *)
(* cable generation (build_cables_from_placements), scene assembly         *)
(* (build_mesh_groups) and the binary exporter (save_mesh_groups_as_glb).  *)
(*                                                                         *)
(* Number representation.  Python floats are modelled as exact rationals   *)
(* [num, den] in lowest terms; angles are kept as a fraction of a full     *)
(* turn (a = 2*pi*turn), so a point of the canopy is held in cylindrical   *)
(* coordinates: X = rad*cos(2*pi*turn), Y = rad*sin(2*pi*turn), Z.         *)
(* Byte strings are modelled by their length and a description of their    *)
(* content.                                                                *)
(***************************************************************************)
EXTENDS Integers, Sequences, FiniteSets, TLC

VARIABLES
    canopyIn,     \* arguments of the last direct build_canopy call
    canopyOut,    \* its returned attachment points
    pc,           \* per request thread: position in generate_from_code
    config,       \* per request thread: the decoded ClusterConfig
    points,       \* per request thread: connection_points of build_canopy
    plan,         \* per request thread: locals of place_pendants_then_plan_cables
    placements,   \* per request thread: placements appended so far
    scene,        \* per request thread: result of build_mesh_groups
    glb,          \* per request thread: the writes of save_mesh_groups_as_glb
    rngState,     \* state of every random generator: one per planning call, and
                  \* the module-level generator of the random module ("global")
    templates,    \* the memoized results of _load_pendant_meshes, per model key
    files         \* the output directory: per configuration hash, the file at its path

vars == <<canopyIn, canopyOut, pc, config, points, plan, placements, scene, glb, rngState,
          templates, files>>

-----------------------------------------------------------------------------
(* Bounds of the model *)

MaxPendants == 3
MaxSeed == 1
NumThreads == 2

-----------------------------------------------------------------------------
(* Rational arithmetic for Python floats *)

Abs(x) == IF x < 0 THEN -x ELSE x

Max2(a, b) == IF a >= b THEN a ELSE b

RECURSIVE Gcd(_, _)
Gcd(a, b) == IF b = 0 THEN a ELSE Gcd(b, a % b)

Rat(n, d) ==
    LET g == Gcd(Abs(n), Abs(d))
        s == IF d < 0 THEN -1 ELSE 1
    IN  [num |-> (s * n) \div g, den |-> (s * d) \div g]

RInt(n) == [num |-> n, den |-> 1]

RAdd(a, b) == Rat(a.num * b.den + b.num * a.den, a.den * b.den)

RSub(a, b) == Rat(a.num * b.den - b.num * a.den, a.den * b.den)

RDivInt(a, k) == Rat(a.num, a.den * k)

RLess(a, b) == a.num * b.den < b.num * a.den

RLeq(a, b) == a.num * b.den <= b.num * a.den

-----------------------------------------------------------------------------
(* app/schema.py and app/settings.py *)

RING == "ring"

RING_WITH_CENTER == "ring_with_center"

RANDOM_RING == "random_ring"

ClusterType == {RING, RING_WITH_CENTER, RANDOM_RING}

CanopySize == {"s", "m", "l"}

CANOPY_SPECS ==
    [s |-> [outer_radius_mm |-> 150, inner_radius_mm |-> 130, cable_offset_mm |-> 20,
            height_mm |-> 40, plate_thickness_mm |-> Rat(3, 2)],
     m |-> [outer_radius_mm |-> 300, inner_radius_mm |-> 280, cable_offset_mm |-> 30,
            height_mm |-> 40, plate_thickness_mm |-> Rat(3, 2)],
     l |-> [outer_radius_mm |-> 450, inner_radius_mm |-> 430, cable_offset_mm |-> 30,
            height_mm |-> 40, plate_thickness_mm |-> Rat(3, 2)]]

-----------------------------------------------------------------------------
(* app/builder/geometry.py: canopy *)

\* rhino3dm.Point3d(rad*cos(a), rad*sin(a), z) with a = 2*pi*turn
Point3d(rad, turn, z) == [rad |-> rad, turn |-> turn, Z |-> z]

\* Point3d(0, 0, zc)
CenterPoint(zc) == Point3d(0, Rat(0, 1), zc)

\* for i in range(count): a = 2*pi*i/max(1, count); points.append(Point3d(...))
RingPoints(count, conn_r, zc) ==
    [k \in 1..count |-> Point3d(conn_r, Rat(k - 1, Max2(1, count)), zc)]

wants_center(cluster_type) == cluster_type \in {RING_WITH_CENTER, RANDOM_RING}

\* Variant: the center point is not counted off the ring.
ring_count_all(n_pendants) == Max2(0, n_pendants)

\* ring_count = max(0, n_pendants - 1)
ring_count(n_pendants) == Max2(0, n_pendants - 1)

\* Variant: the cable offset is not taken off the inner radius.
conn_r_no_offset(size_key) == CANOPY_SPECS[size_key].inner_radius_mm

\* conn_r = r_in - offset
conn_r(size_key) ==
    CANOPY_SPECS[size_key].inner_radius_mm - CANOPY_SPECS[size_key].cable_offset_mm

\* Variant: the points are put on the ceiling plane instead of the canopy base.
zc_of_ceiling(size_key) == RInt(0)

\* zc = -height
zc_of(size_key) == RInt(-CANOPY_SPECS[size_key].height_mm)

\* The attachment points returned by build_canopy (third component).
build_canopy_points(size_key, n_pendants, cluster_type) ==
    IF wants_center(cluster_type)
    THEN RingPoints(ring_count(n_pendants), conn_r(size_key), zc_of(size_key))
            \o <<CenterPoint(zc_of(size_key))>>   \* center always last
    ELSE RingPoints(n_pendants, conn_r(size_key), zc_of(size_key))

-----------------------------------------------------------------------------
(* Meshes.  A mesh is held as its vertex and face counts, its vertical     *)
(* bounding interval, a description of its geometry and the transforms     *)
(* applied to it so far, in order.                                         *)

Mesh(geom, nv, tri, quad, zmin, zmax) ==
    [geom |-> geom, nv |-> nv, tri |-> tri, quad |-> quad,
     zmin |-> zmin, zmax |-> zmax, xf |-> <<>>]

\* mesh.Transform(t), in place
Transformed(mesh, t) == [mesh EXCEPT !.xf = Append(@, t)]

Translation(rad, turn, z) == [op |-> "translate", rad |-> rad, turn |-> turn, Z |-> z]

\* Transform.Rotation(angle, Vector3d(0, 0, 1), origin), angle = 2*pi*turn
RotationZ(turn) == [op |-> "rotate_z", turn |-> turn]

\* Transform.Rotation(math.pi, Vector3d(1, 0, 0), origin)
RotationXPi == [op |-> "rotate_x_pi"]

Identity == [op |-> "identity"]

CANOPY_SEGMENTS == 96

CABLE_SEGMENTS == 32

CABLE_RADIUS_MM == Rat(5, 2)

\* segments ring quads, 2*segments cap triangles, 2*segments + 2 vertices
create_cylinder_mesh(radius, height, segments) ==
    Mesh([kind |-> "cylinder", radius |-> radius, height |-> height,
          segments |-> segments],
         2 * segments + 2, 2 * segments, segments, RInt(0), height)

\* bottom and top disc of build_canopy
canopy_bottom(size_key) ==
    LET spec == CANOPY_SPECS[size_key]
    IN  Transformed(
            create_cylinder_mesh(RInt(spec.outer_radius_mm), spec.plate_thickness_mm,
                                 CANOPY_SEGMENTS),
            Translation(0, Rat(0, 1), RInt(-spec.height_mm)))

canopy_top(size_key) ==
    LET spec == CANOPY_SPECS[size_key]
        h == RSub(RInt(spec.height_mm), spec.plate_thickness_mm)
    IN  Transformed(
            create_cylinder_mesh(RAdd(RInt(spec.inner_radius_mm), spec.plate_thickness_mm),
                                 h, CANOPY_SEGMENTS),
            Translation(0, Rat(0, 1), RSub(RInt(0), h)))

-----------------------------------------------------------------------------
(* Pendant assets.  The .3dm files are not part of the sources; the model  *)
(* takes two model keys whose files differ in the number of meshes, in     *)
(* their face kinds and in their vertical extents (millimetres, origin at  *)
(* the suspension point or inside the shade).                              *)

PendantModels == {"denny", "alki"}

PendantPart(model_key, k, nv, tri, quad, zmin, zmax) ==
    Mesh([kind |-> "pendant", model |-> model_key, part |-> k],
         nv, tri, quad, RInt(zmin), RInt(zmax))

\* rhino3dm.File3dm.Read(path): the meshes of the file, in object order.
\* denny: one quad-faced mesh reaching 100 above and below its origin.
\* alki: a mesh of one triangle and one quad hanging 45 below its origin, and a
\* second mesh without faces.
PendantFile(model_key) ==
    CASE model_key = "denny" -> <<PendantPart("denny", 1, 4, 0, 1, -100, 100)>>
      [] model_key = "alki"  -> <<PendantPart("alki", 1, 5, 1, 1, -45, 0),
                                  PendantPart("alki", 2, 3, 0, 0, -20, -10)>>

\* The model keys the code codec can produce (the values of PENDANT_MODEL_MAP); the
\* library has no entry for "oliv".
PENDANT_MODEL_MAP == PendantModels \cup {"oliv"}

\* Variant: an unknown key resolves to the file of a default model.
get_pendant_path_default(key) ==
    IF key \in PendantModels THEN [found |-> TRUE, path |-> key]
    ELSE [found |-> TRUE, path |-> "denny"]

\* get_pendant_path(key): the path of the library entry (held as the key of the
\* entry), or ValueError when the library has none
get_pendant_path(key) ==
    IF key \in PendantModels THEN [found |-> TRUE, path |-> key]
    ELSE [found |-> FALSE, path |-> ""]

_load_pendant_meshes(model_key) == PendantFile(get_pendant_path(model_key).path)

\* The cache that lru_cache keeps for _load_pendant_meshes: per model key the stored
\* tuple of meshes, <<>> while the key has not been loaded.  The cache holds 128
\* keys, more than the library has, so nothing is evicted.
NotLoaded == <<>>

\* the cache after a call of _load_pendant_meshes(model_key)
cache_after_load(store, model_key) ==
    IF store[model_key] = NotLoaded
    THEN [store EXCEPT ![model_key] = _load_pendant_meshes(model_key)]
    ELSE store

(* Mesh objects.  A mesh object is either one of the cached template meshes, *)
(* shared by every caller, or an object private to one call that holds its   *)
(* own value.                                                                *)

TemplateMesh(model_key, k) == [shared |-> TRUE, model |-> model_key, part |-> k]

ValueOf(store, ref) == IF ref.shared THEN store[ref.model][ref.part] ELSE ref.mesh

\* Variant: the mesh object itself is handed on, without a copy.
Duplicate_alias(store, ref) == ref

\* m.Duplicate(): a new object with the value of m
Duplicate(store, ref) == [shared |-> FALSE, mesh |-> ValueOf(store, ref)]

\* mm.Transform(t) on a mesh object: the object is changed in place, so a template
\* object changes in the cache
TransformInPlace(store, ref, t) ==
    IF ref.shared
    THEN [store |-> [store EXCEPT ![ref.model][ref.part] = Transformed(@, t)], ref |-> ref]
    ELSE [store |-> store, ref |-> [ref EXCEPT !.mesh = Transformed(@, t)]]

\* the largest element of a non-empty set of rationals
RMaxOf(S) == CHOOSE m \in S : \A x \in S : RLeq(x, m)

\* (top, bottom) = (bbox.Max.Z, -bbox.Min.Z) of the union of the bounding boxes
_pendant_extents(model_key) ==
    LET meshes == _load_pendant_meshes(model_key)
    IN  [top    |-> RMaxOf({meshes[i].zmax : i \in DOMAIN meshes}),
         bottom |-> RMaxOf({RSub(RInt(0), meshes[i].zmin) : i \in DOMAIN meshes})]

-----------------------------------------------------------------------------
(* Seeded generator.  random.Random is abstracted to a full-period linear  *)
(* congruential generator over 0..RngMod-1: what matters is that every     *)
(* draw is a function of the generator's state alone and advances it.      *)

RngMod == 16

\* random.Random(int(seed))
RngSeed(seed) == seed % RngMod

RngNext(s) == (5 * s + 3) % RngMod

\* rng.random(): a float in [0, 1)
RngRandom(s) == Rat(RngNext(s), RngMod)

\* rng._randbelow(k)
RngBelow(s, k) == RngNext(s) % k

-----------------------------------------------------------------------------
(* app/builder/geometry.py: place_pendants_then_plan_cables *)

RECURSIVE SumTo(_, _)
\* f[1] + ... + f[k] for rational-valued f
SumTo(f, k) == IF k = 0 THEN RInt(0) ELSE RAdd(SumTo(f, k - 1), f[k])

\* occupied = tops[0] + bottoms[-1]; for i in range(n-1): occupied += bottoms[i] + tops[i+1]
occupied_of(tops, bottoms) ==
    LET n == Len(tops)
        term == [i \in 1..(n - 1) |-> RAdd(bottoms[i], tops[i + 1])]
    IN  RAdd(RAdd(tops[1], bottoms[n]), SumTo(term, n - 1))

\* Variant: the slack is divided by the number of pendants, not of gaps.
gap_of_over_n(n, first, total, occupied) ==
    IF n <= 1 THEN RInt(0)
    ELSE RDivInt(RSub(RSub(RInt(total), RInt(first)), occupied), n)

\* Variant: the occupied clearance is taken off the available length twice.
gap_of_twice_occupied(n, first, total, occupied) ==
    IF n <= 1 THEN RInt(0)
    ELSE RDivInt(RSub(RSub(RInt(total), RInt(first)), RAdd(occupied, occupied)), n - 1)

\* gap = 0.0 if n <= 1 else (available - occupied) / (n - 1)
gap_of(n, first, total, occupied) ==
    IF n <= 1 THEN RInt(0)
    ELSE RDivInt(RSub(RSub(RInt(total), RInt(first)), occupied), n - 1)

RECURSIVE drops_of(_, _, _, _, _)
\* drops = [first]; for i in range(n-1): drops.append(drops[-1] + bottoms[i] + tops[i+1] + gap)
drops_of(k, first, tops, bottoms, gap) ==
    IF k = 1 THEN <<RInt(first)>>
    ELSE LET prev == drops_of(k - 1, first, tops, bottoms, gap)
         IN  Append(prev, RAdd(RAdd(RAdd(prev[k - 1], bottoms[k - 1]), tops[k]), gap))

\* math.atan2(p.Y, p.X) as a fraction of a turn, in (-1/2, 1/2]; atan2(0, 0) = 0
atan2_turn(p) ==
    IF p.rad = 0 THEN Rat(0, 1)
    ELSE IF RLeq(p.turn, Rat(1, 2)) THEN p.turn ELSE RSub(p.turn, RInt(1))

\* Variant: the indices are left in their original order, the key is ignored.
sorted_by_index(todo, key) ==
    [i \in 1..Cardinality(todo) |->
        CHOOSE x \in todo : Cardinality({y \in todo : y < x}) = i - 1]

RECURSIVE sorted_by(_, _)
\* sorted(todo, key=...): ascending and stable (ties keep index order)
sorted_by(todo, key) ==
    IF todo = {} THEN <<>>
    ELSE LET least == CHOOSE i \in todo :
                        \A j \in todo \ {i} :
                            RLess(key[i], key[j]) \/ (key[i] = key[j] /\ i < j)
         IN  <<least>> \o sorted_by(todo \ {least}, key)

\* Variant: the swap loses the element it overwrites.
Swap_overwrite(x, i, j) == [x EXCEPT ![i] = x[j]]

Swap(x, i, j) == [x EXCEPT ![i] = x[j], ![j] = x[i]]

RECURSIVE shuffle(_, _, _)
\* rng.shuffle(x): for i in reversed(range(1, len(x))): j = randbelow(i+1); swap.
\* Positions are 1-based here: i runs from Len(x) down to 2.
shuffle(x, i, s) ==
    IF i < 2 THEN [x |-> x, rng |-> s]
    ELSE shuffle(Swap(x, i, RngBelow(s, i) + 1), i - 1, RngNext(s))

RECURSIVE cache_after_loads(_, _)
\* the cache after the loop of lines 155-159 loaded the model of every pendant
cache_after_loads(store, pendants) ==
    IF pendants = <<>> THEN store
    ELSE cache_after_load(cache_after_loads(store, SubSeq(pendants, 1, Len(pendants) - 1)),
                          pendants[Len(pendants)].model)

\* Lines 148-186: the locals of the planning call at the head of the placement loop,
\* and the state of its generator after the shuffle.
plan_of(cfg, connection_points, store) ==
    LET n == Len(cfg.pendants)
        loaded == cache_after_loads(store, cfg.pendants)
        tops == [i \in 1..n |-> _pendant_extents(cfg.pendants[i].model).top]
        bottoms == [i \in 1..n |-> _pendant_extents(cfg.pendants[i].model).bottom]
        first == cfg.layout.first_drop_mm
        total == cfg.layout.total_drop_mm
        occupied == occupied_of(tops, bottoms)
        gap == gap_of(n, first, total, occupied)
        identity == [i \in 1..n |-> i]
        key == [i \in 1..n |-> atan2_turn(connection_points[i])]
        sorted == IF n > 1 /\ cfg.layout.cluster_type \in {RING, RING_WITH_CENTER, RANDOM_RING}
                  THEN sorted_by(1..n, key) ELSE identity
        shuffled == IF n > 1 /\ cfg.layout.cluster_type = RANDOM_RING
                    THEN shuffle(sorted, n, RngSeed(cfg.random_seed))
                    ELSE [x |-> sorted, rng |-> RngSeed(cfg.random_seed)]
    IN  [n |-> n, tops |-> tops, bottoms |-> bottoms, occupied |-> occupied,
         gap |-> gap, drops |-> drops_of(n, first, tops, bottoms, gap),
         indices |-> shuffled.x, rng |-> shuffled.rng,
         meshes_by_index |->
            [i \in 1..n |->
                [k \in DOMAIN loaded[cfg.pendants[i].model] |->
                    Duplicate(loaded, TemplateMesh(cfg.pendants[i].model, k))]]]

\* Variant: the drop is added to Z instead of subtracted.
end_of_raised(sp, drop) == Point3d(sp.rad, sp.turn, RAdd(sp.Z, drop))

\* end = Point3d(sp.X, sp.Y, sp.Z - drop)
end_of(sp, drop) == Point3d(sp.rad, sp.turn, RSub(sp.Z, drop))

RECURSIVE placed_meshes(_, _, _, _)
\* Lines 203-208: for m in meshes_by_index[i]: mm = m.Duplicate(); mm.Transform(rot);
\* mm.Transform(translation); placed.append(mm).  Gives the placed meshes and the
\* template cache after the loop.
placed_meshes(store, refs, twist, end) ==
    IF refs = <<>> THEN [store |-> store, placed |-> <<>>]
    ELSE LET before == placed_meshes(store, SubSeq(refs, 1, Len(refs) - 1), twist, end)
             mm == Duplicate(before.store, refs[Len(refs)])
             rotated == TransformInPlace(before.store, mm, RotationZ(twist))
             moved == TransformInPlace(rotated.store, rotated.ref,
                                       Translation(end.rad, end.turn, end.Z))
         IN  [store |-> moved.store,
              placed |-> Append(before.placed, ValueOf(moved.store, moved.ref))]

\* Lines 190-218: iteration i (1-based) of the placement loop, drawing the twist from
\* a generator in state s: the placement appended and the template cache afterwards.
placement_of(cfg, connection_points, pl, i, s, store) ==
    LET sp == connection_points[pl.indices[i]]
        end == end_of(sp, pl.drops[i])
        pm == placed_meshes(store, pl.meshes_by_index[i], RngRandom(s), end)
    IN  [placement |-> [pendant |-> cfg.pendants[i], start |-> sp, end |-> end,
                        meshes |-> pm.placed],
         store |-> pm.store]

-----------------------------------------------------------------------------
(* app/builder/geometry.py: build_cables_from_placements *)

\* d.Length() for d = end - start.  Start and end share X and Y (end_of), so the
\* length is |end.Z - start.Z|.
segment_length(pl) == LET dz == RSub(pl.end.Z, pl.start.Z)
                      IN  IF dz.num < 0 THEN RSub(RInt(0), dz) ELSE dz

\* length < 1e-6
EPSILON == Rat(1, 1000000)

\* Variant: only a negative length is skipped.
is_degenerate_negative(pl) == RLess(segment_length(pl), RInt(0))

is_degenerate(pl) == RLess(segment_length(pl), EPSILON)

\* _rotation_from_z(d) for a vertical d: dot = +1 (identity) or -1 (half turn about X)
_rotation_from_z(pl) ==
    IF RLess(pl.start.Z, pl.end.Z) THEN Identity ELSE RotationXPi

cable_mesh(pl) ==
    Transformed(
        Transformed(create_cylinder_mesh(CABLE_RADIUS_MM, segment_length(pl), CABLE_SEGMENTS),
                    _rotation_from_z(pl)),
        Translation(pl.start.rad, pl.start.turn, pl.start.Z))

RECURSIVE build_cables_from_placements(_)
\* for pl in placements: if length < 1e-6: continue; meshes.append(cyl)
build_cables_from_placements(pls) ==
    IF pls = <<>> THEN <<>>
    ELSE LET rest == build_cables_from_placements(SubSeq(pls, 1, Len(pls) - 1))
             pl == pls[Len(pls)]
         IN  IF is_degenerate(pl) THEN rest ELSE Append(rest, cable_mesh(pl))

-----------------------------------------------------------------------------
(* app/builder/build.py: build_mesh_groups *)

MeshGroup(mesh, key) == [mesh |-> mesh, material_key |-> key]

RECURSIVE Flatten(_)
Flatten(seqs) == IF seqs = <<>> THEN <<>> ELSE Head(seqs) \o Flatten(Tail(seqs))

\* for pl in placements: for pm in pl.meshes: mesh_groups.append(...)
pendant_groups(pls) ==
    Flatten([i \in DOMAIN pls |->
                [k \in DOMAIN pls[i].meshes |->
                    MeshGroup(pls[i].meshes[k], pls[i].pendant.appearance)]])

\* Variant: the pendant groups are appended before the cable groups.
mesh_groups_of_pendants_first(cfg, pls) ==
    LET cables == build_cables_from_placements(pls)
    IN  <<MeshGroup(canopy_bottom(cfg.canopy.size), cfg.canopy.appearance),
          MeshGroup(canopy_top(cfg.canopy.size), cfg.canopy.appearance)>>
        \o pendant_groups(pls)
        \o [k \in DOMAIN cables |-> MeshGroup(cables[k], cfg.cable.appearance)]

mesh_groups_of(cfg, pls) ==
    LET cables == build_cables_from_placements(pls)
    IN  <<MeshGroup(canopy_bottom(cfg.canopy.size), cfg.canopy.appearance),
          MeshGroup(canopy_top(cfg.canopy.size), cfg.canopy.appearance)>>
        \o [k \in DOMAIN cables |-> MeshGroup(cables[k], cfg.cable.appearance)]
        \o pendant_groups(pls)

\* Variant: every group's key is appended, seen before or not.
material_keys_of_all(groups) == [k \in DOMAIN groups |-> groups[k].material_key]

RECURSIVE material_keys_of(_)
\* for mg in mesh_groups: if k not in material_keys: material_keys.append(k)
material_keys_of(groups) ==
    IF groups = <<>> THEN <<>>
    ELSE LET before == material_keys_of(SubSeq(groups, 1, Len(groups) - 1))
             k == groups[Len(groups)].material_key
         IN  IF \E j \in DOMAIN before : before[j] = k THEN before ELSE Append(before, k)

-----------------------------------------------------------------------------
(* app/builder/materials.py *)

MATERIAL_PRESETS ==
    [canopy_white |-> [name |-> "CanopyWhite",
        pbr |-> "{\"baseColorFactor\": [0.95, 0.95, 0.95, 1.0], \"metallicFactor\": 0.0, \"roughnessFactor\": 0.6}"],
     canopy_black |-> [name |-> "CanopyBlack",
        pbr |-> "{\"baseColorFactor\": [0.05, 0.05, 0.05, 1.0], \"metallicFactor\": 0.0, \"roughnessFactor\": 0.65}"],
     cable_white |-> [name |-> "CableWhite",
        pbr |-> "{\"baseColorFactor\": [0.92, 0.92, 0.92, 1.0], \"metallicFactor\": 0.0, \"roughnessFactor\": 0.8}"],
     cable_black |-> [name |-> "CableBlack",
        pbr |-> "{\"baseColorFactor\": [0.03, 0.03, 0.03, 1.0], \"metallicFactor\": 0.0, \"roughnessFactor\": 0.85}"],
     shade_white |-> [name |-> "ShadeWhite",
        pbr |-> "{\"baseColorFactor\": [0.82, 0.81, 0.78, 1.0], \"metallicFactor\": 0.0, \"roughnessFactor\": 0.95}"],
     shade_blonde |-> [name |-> "ShadeBlonde",
        pbr |-> "{\"baseColorFactor\": [0.48, 0.4, 0.26, 1.0], \"metallicFactor\": 0.0, \"roughnessFactor\": 0.95}"],
     shade_natural |-> [name |-> "ShadeNatural",
        pbr |-> "{\"baseColorFactor\": [0.13, 0.09, 0.05, 1.0], \"metallicFactor\": 0.0, \"roughnessFactor\": 0.98}"]]

RECURSIVE lstrip(_)
lstrip(str) ==
    IF Len(str) > 0 /\ SubSeq(str, 1, 1) = " " THEN lstrip(SubSeq(str, 2, Len(str))) ELSE str

RECURSIVE rstrip(_)
rstrip(str) ==
    IF Len(str) > 0 /\ SubSeq(str, Len(str), Len(str)) = " "
    THEN rstrip(SubSeq(str, 1, Len(str) - 1)) ELSE str

\* key.strip(), for keys whose only whitespace is the space character
strip(str) == rstrip(lstrip(str))

\* key = (key or "").strip(); the preset of the key, or of the fallback
\* "shade_natural" (the default of the fallback parameter)
get_material_preset(key) ==
    IF strip(key) \in DOMAIN MATERIAL_PRESETS THEN MATERIAL_PRESETS[strip(key)]
    ELSE MATERIAL_PRESETS["shade_natural"]

-----------------------------------------------------------------------------
(* app/builder/exporter.py *)

\* A byte string: a description of its content, its length, and the padding bytes
\* appended to it.
Bytes(data, len) == [data |-> data, len |-> len, padding |-> 0]

RECURSIVE pad_to_4(_)
\* while len(data) % 4 != 0: data += b"\x00"
pad_to_4(b) ==
    IF b.len % 4 # 0 THEN pad_to_4([b EXCEPT !.len = @ + 1, !.padding = @ + 1]) ELSE b

\* Variant: the text is encoded and not padded.
pad_json_to_4_unpadded(json_str) == json_str

RECURSIVE pad_json_to_4(_)
\* data = json_str.encode("utf-8"); while len(data) % 4 != 0: data += b" "
\* (the text is ASCII: one byte per character)
pad_json_to_4(json_str) ==
    IF Len(json_str) % 4 # 0 THEN pad_json_to_4(json_str \o " ") ELSE json_str

mapping_type_from_material_key(key) ==
    IF Len(key) >= 6 /\ SubSeq(key, 1, 6) = "shade_" THEN "cylindrical" ELSE "planar"

\* lengths of the three arrays of mesh_to_arrays
mesh_to_arrays(mesh) ==
    [positions |-> 3 * mesh.nv, uvs |-> 2 * mesh.nv, indices |-> 3 * mesh.tri + 6 * mesh.quad]

\* struct.pack("<" + fmt * count, ...): 4 bytes per "f" or "I"
struct_pack(what, of, count) == Bytes([array |-> what, of |-> of], 4 * count)

RECURSIVE SumLen(_)
\* sum(len(b) for b in buffers)
SumLen(buffers) ==
    IF buffers = <<>> THEN 0 ELSE SumLen(SubSeq(buffers, 1, Len(buffers) - 1)) + buffers[Len(buffers)].len

\* Variant: the index is taken after the record is appended.
material_index_after_append(material_keys, key) ==
    CHOOSE j \in DOMAIN material_keys :
        material_keys[j] = key /\ \A i \in DOMAIN material_keys : material_keys[i] = key => i <= j

\* position of key in material_keys, 0-based (material_index_map[key]; a later
\* entry of the same key overwrites an earlier one)
material_index(material_keys, key) ==
    (CHOOSE j \in DOMAIN material_keys :
        material_keys[j] = key /\ \A i \in DOMAIN material_keys : material_keys[i] = key => i <= j) - 1

BufferView(off, len, target) ==
    [buffer |-> 0, byteOffset |-> off, byteLength |-> len, target |-> target]

Accessor(view, ctype, count, type) ==
    [bufferView |-> view, componentType |-> ctype, count |-> count, type |-> type]

EmptyExport == [buffers |-> <<>>, buffer_views |-> <<>>, accessors |-> <<>>,
                meshes_out |-> <<>>, nodes |-> <<>>]

\* Variant: no group is skipped.
skip_group_never(arr) == FALSE

\* if not indices: continue
skip_group(arr) == arr.indices = 0

\* Variant: the three offsets are taken before any of the three buffers is appended.
offsets_of_stale(buffers, pos, uv) ==
    [pos |-> SumLen(buffers), uv |-> SumLen(buffers), idx |-> SumLen(buffers)]

\* pos_off, uv_off, idx_off: each is sum(len(b) for b in buffers) before its own
\* buffer is appended (lines 112-119)
offsets_of(buffers, pos, uv) ==
    [pos |-> SumLen(buffers), uv |-> SumLen(Append(buffers, pos)),
     idx |-> SumLen(buffers \o <<pos, uv>>)]

\* Lines 96-143: the body of the loop over mesh_groups, for one group mg
export_group(ex, mg, material_keys) ==
    LET arr == mesh_to_arrays(mg.mesh)
        mapping == mapping_type_from_material_key(mg.material_key)
        pos == pad_to_4(struct_pack("positions", mg.mesh, arr.positions))
        uv == pad_to_4(struct_pack("uvs", [mesh |-> mg.mesh, mapping |-> mapping], arr.uvs))
        idx == pad_to_4(struct_pack("indices", mg.mesh.geom, arr.indices))
        off == offsets_of(ex.buffers, pos, uv)
        bv == Len(ex.buffer_views)
        acc == Len(ex.accessors)
    IN  IF skip_group(arr) THEN ex
        ELSE [buffers |-> ex.buffers \o <<pos, uv, idx>>,
              buffer_views |-> ex.buffer_views \o
                  <<BufferView(off.pos, pos.len, 34962), BufferView(off.uv, uv.len, 34962),
                    BufferView(off.idx, idx.len, 34963)>>,
              accessors |-> ex.accessors \o
                  <<Accessor(bv, 5126, arr.positions \div 3, "VEC3"),
                    Accessor(bv + 1, 5126, arr.uvs \div 2, "VEC2"),
                    Accessor(bv + 2, 5125, arr.indices, "SCALAR")>>,
              meshes_out |-> Append(ex.meshes_out,
                  [POSITION |-> acc, TEXCOORD_0 |-> acc + 1, indices |-> acc + 2,
                   material |-> material_index(material_keys, mg.material_key)]),
              nodes |-> Append(ex.nodes, [mesh |-> Len(ex.meshes_out)])]

RECURSIVE export_groups(_, _)
\* for mg in mesh_groups: ...
export_groups(mesh_groups, material_keys) ==
    IF mesh_groups = <<>> THEN EmptyExport
    ELSE export_group(export_groups(SubSeq(mesh_groups, 1, Len(mesh_groups) - 1), material_keys),
                      mesh_groups[Len(mesh_groups)], material_keys)

\* Lines 145-155: the gltf dictionary
gltf_of(mesh_groups, material_keys) ==
    LET ex == export_groups(mesh_groups, material_keys)
    IN  [scenes |-> [k \in DOMAIN ex.nodes |-> k - 1],
         nodes |-> ex.nodes,
         meshes |-> ex.meshes_out,
         buffers |-> SumLen(ex.buffers),
         bufferViews |-> ex.buffer_views,
         accessors |-> ex.accessors,
         materials |-> [k \in DOMAIN material_keys |-> get_material_preset(material_keys[k])]]

(* json.dumps(gltf): default separators ", " and ": ", keys in insertion order *)

RECURSIVE Join(_)
\* ", ".join(items)
Join(items) ==
    IF items = <<>> THEN ""
    ELSE IF Len(items) = 1 THEN items[1]
    ELSE Join(SubSeq(items, 1, Len(items) - 1)) \o ", " \o items[Len(items)]

JsonList(items) == "[" \o Join(items) \o "]"

JsonNode(n) == "{\"mesh\": " \o ToString(n.mesh) \o "}"

JsonMesh(m) ==
    "{\"primitives\": [{\"attributes\": {\"POSITION\": " \o ToString(m.POSITION)
    \o ", \"TEXCOORD_0\": " \o ToString(m.TEXCOORD_0) \o "}, \"indices\": "
    \o ToString(m.indices) \o ", \"material\": " \o ToString(m.material) \o "}]}"

JsonBufferView(v) ==
    "{\"buffer\": " \o ToString(v.buffer) \o ", \"byteOffset\": " \o ToString(v.byteOffset)
    \o ", \"byteLength\": " \o ToString(v.byteLength) \o ", \"target\": "
    \o ToString(v.target) \o "}"

JsonAccessor(a) ==
    "{\"bufferView\": " \o ToString(a.bufferView) \o ", \"componentType\": "
    \o ToString(a.componentType) \o ", \"count\": " \o ToString(a.count)
    \o ", \"type\": \"" \o a.type \o "\"}"

JsonMaterial(m) ==
    "{\"name\": \"" \o m.name \o "\", \"pbrMetallicRoughness\": " \o m.pbr
    \o ", \"doubleSided\": true}"

json_dumps(gltf) ==
    "{\"asset\": {\"version\": \"2.0\"}, \"scene\": 0, \"scenes\": [{\"nodes\": "
    \o JsonList([k \in DOMAIN gltf.scenes |-> ToString(gltf.scenes[k])]) \o "}], \"nodes\": "
    \o JsonList([k \in DOMAIN gltf.nodes |-> JsonNode(gltf.nodes[k])]) \o ", \"meshes\": "
    \o JsonList([k \in DOMAIN gltf.meshes |-> JsonMesh(gltf.meshes[k])])
    \o ", \"buffers\": [{\"byteLength\": " \o ToString(gltf.buffers) \o "}], \"bufferViews\": "
    \o JsonList([k \in DOMAIN gltf.bufferViews |-> JsonBufferView(gltf.bufferViews[k])])
    \o ", \"accessors\": "
    \o JsonList([k \in DOMAIN gltf.accessors |-> JsonAccessor(gltf.accessors[k])])
    \o ", \"materials\": "
    \o JsonList([k \in DOMAIN gltf.materials |-> JsonMaterial(gltf.materials[k])]) \o "}"

\* struct.pack("<4sII", ...) and struct.pack("<I4s", ...)
HEADER_BYTES == 12

CHUNK_HEADER_BYTES == 8

\* json_chunk = pad_json_to_4(json.dumps(gltf)): held as the dictionary it encodes,
\* the length of the encoded text and the number of trailing spaces
json_chunk_of(gltf) ==
    LET text == json_dumps(gltf)
        padded == pad_json_to_4(text)
    IN  [data |-> gltf, len |-> Len(padded), padding |-> Len(padded) - Len(text)]

\* bin_chunk = pad_to_4(b"".join(buffers))
bin_chunk_of(mesh_groups, material_keys) ==
    LET buffers == export_groups(mesh_groups, material_keys).buffers
    IN  pad_to_4(Bytes(buffers, SumLen(buffers)))

\* the length field packed into the header (line 160)
header_total(json_chunk, bin_chunk) ==
    HEADER_BYTES + CHUNK_HEADER_BYTES + json_chunk.len + CHUNK_HEADER_BYTES + bin_chunk.len

\* Lines 157-167: the five writes to the output file, in order
save_mesh_groups_as_glb(mesh_groups, material_keys) ==
    LET gltf == gltf_of(mesh_groups, material_keys)
        json_chunk == json_chunk_of(gltf)
        bin_chunk == bin_chunk_of(mesh_groups, material_keys)
    IN  <<Bytes([magic |-> "glTF", version |-> 2,
                 length |-> header_total(json_chunk, bin_chunk)], HEADER_BYTES),
          Bytes([length |-> json_chunk.len, type |-> "JSON"], CHUNK_HEADER_BYTES),
          json_chunk,
          Bytes([length |-> bin_chunk.len, type |-> "BIN"], CHUNK_HEADER_BYTES),
          bin_chunk>>

-----------------------------------------------------------------------------
(* Configurations (app/schema.py: ClusterConfig) *)

ClusterConfig(size, canopy_app, cable_app, cluster_type, first, total, pendants, seed) ==
    [canopy |-> [size |-> size, appearance |-> canopy_app],
     cable |-> [appearance |-> cable_app],
     layout |-> [cluster_type |-> cluster_type, first_drop_mm |-> first,
                 total_drop_mm |-> total],
     pendants |-> pendants,
     random_seed |-> seed]

\* pendants of both models; the model with two meshes comes in two shades
PendantConfig ==
    {[model |-> "denny", appearance |-> "shade_natural"],
     [model |-> "alki", appearance |-> "shade_natural"],
     [model |-> "alki", appearance |-> "shade_white"]}

PendantLists == UNION {[1..n -> PendantConfig] : n \in 1..MaxPendants}

\* first_drop_mm >= 100, total_drop_mm >= 200, total_drop_mm >= first_drop_mm
\* (LayoutConfig and _validate_drops)
Drops == {d \in {100, 200} \X {200, 300} : d[2] >= d[1]}

\* The configurations a single request is drawn from
Configs ==
    {ClusterConfig("s", "canopy_white", "cable_black", ct, d[1], d[2], ps, seed) :
        ct \in ClusterType, d \in Drops, ps \in PendantLists, seed \in 0..MaxSeed}

\* The configurations concurrent requests are drawn from
SharedConfigs ==
    {ClusterConfig("s", "canopy_black", "cable_black", c[1], 100, 300,
                   [i \in 1..n |-> [model |-> "alki", appearance |-> "shade_natural"]], c[2]) :
        c \in {<<RING, 0>>, <<RANDOM_RING, 0>>, <<RANDOM_RING, 1>>}, n \in {1, 2}}

-----------------------------------------------------------------------------
(* Request threads *)

Threads == 1..NumThreads

\* The module-level generator of the random module
GLOBAL == 0

Generators == Threads \cup {GLOBAL}

NoConfig == [pendants |-> <<>>]

NoPlan == [n |-> 0]

NoScene == [mesh_groups |-> <<>>, material_keys |-> <<>>]

Init ==
    /\ canopyIn = [size_key |-> "s", n_pendants |-> 0, cluster_type |-> RING]
    /\ canopyOut = <<>>
    /\ pc = [t \in Threads |-> "idle"]
    /\ config = [t \in Threads |-> NoConfig]
    /\ points = [t \in Threads |-> <<>>]
    /\ plan = [t \in Threads |-> NoPlan]
    /\ placements = [t \in Threads |-> <<>>]
    /\ scene = [t \in Threads |-> NoScene]
    /\ glb = [t \in Threads |-> <<>>]
    /\ rngState = [g \in Generators |-> 0]
    /\ templates = [model_key \in PENDANT_MODEL_MAP |-> NotLoaded]
    /\ files = [h \in {} |-> <<>>]

\* A direct call of build_canopy
CallBuildCanopy(size_key, n_pendants, cluster_type) ==
    /\ canopyIn' = [size_key |-> size_key, n_pendants |-> n_pendants,
                    cluster_type |-> cluster_type]
    /\ canopyOut' = build_canopy_points(size_key, n_pendants, cluster_type)
    /\ UNCHANGED <<pc, config, points, plan, placements, scene, glb, rngState, templates, files>>

\* generate_from_code: the request is decoded to a valid configuration
Receive(t, configs) ==
    /\ pc[t] = "idle"
    /\ pc' = [pc EXCEPT ![t] = "build"]
    /\ \E cfg \in configs : config' = [config EXCEPT ![t] = cfg]
    /\ UNCHANGED <<canopyIn, canopyOut, points, plan, placements, scene, glb, rngState, templates, files>>

\* Variant: every planning call seeds and draws from the module-level generator.
generator_of_module(t) == GLOBAL

\* The generator a planning call draws from: its own instance (line 149)
generator_of(t) == t

\* The pendant at which the planning call raises: the first one whose model key
\* get_pendant_path does not resolve (ValueError, in the loop of lines 155-159);
\* with no pendants at all, tops[0] raises IndexError after the empty loop (line
\* 164), given here as position 1; 0 when the call does not raise.
first_failure(cfg) ==
    LET bad == {i \in DOMAIN cfg.pendants : ~get_pendant_path(cfg.pendants[i].model).found}
    IN  IF bad # {} THEN CHOOSE i \in bad : \A j \in bad : i <= j
        ELSE IF Len(cfg.pendants) = 0 THEN 1 ELSE 0

\* build_mesh_groups raises out of generate_from_code (line 31 is outside the try):
\* the models of the pendants before the failing one have been loaded
BuildFails(t) ==
    /\ pc[t] = "build"
    /\ first_failure(config[t]) > 0
    /\ templates' = cache_after_loads(templates,
                                       SubSeq(config[t].pendants, 1, first_failure(config[t]) - 1))
    /\ pc' = [pc EXCEPT ![t] = "error"]
    /\ UNCHANGED <<canopyIn, canopyOut, config, points, plan, placements, scene, glb,
                   rngState, files>>

\* build_mesh_groups up to the head of the placement loop: build_canopy, then lines
\* 148-186 of place_pendants_then_plan_cables
BuildAndPlan(t) ==
    /\ pc[t] = "build"
    /\ first_failure(config[t]) = 0
    /\ LET cps == build_canopy_points(config[t].canopy.size, Len(config[t].pendants),
                                      config[t].layout.cluster_type)
           pl == plan_of(config[t], cps, templates)
       IN  /\ points' = [points EXCEPT ![t] = cps]
           /\ plan' = [plan EXCEPT ![t] = pl]
           /\ templates' = cache_after_loads(templates, config[t].pendants)
           /\ rngState' = [rngState EXCEPT ![generator_of(t)] = pl.rng]
    /\ pc' = [pc EXCEPT ![t] = "place"]
    /\ UNCHANGED <<canopyIn, canopyOut, config, placements, scene, glb, files>>

\* One iteration of the placement loop (lines 190-218)
PlaceNext(t) ==
    /\ pc[t] = "place"
    /\ Len(placements[t]) < plan[t].n
    /\ LET i == Len(placements[t]) + 1
           s == rngState[generator_of(t)]
           placed == placement_of(config[t], points[t], plan[t], i, s, templates)
       IN  /\ placements' = [placements EXCEPT ![t] = Append(@, placed.placement)]
           /\ templates' = placed.store
           /\ rngState' = [rngState EXCEPT ![generator_of(t)] = RngNext(s)]
    /\ UNCHANGED <<canopyIn, canopyOut, pc, config, points, plan, scene, glb, files>>

\* The rest of build_mesh_groups: cables, mesh groups, material keys
Assemble(t) ==
    /\ pc[t] = "place"
    /\ Len(placements[t]) = plan[t].n
    /\ LET groups == mesh_groups_of(config[t], placements[t])
       IN  scene' = [scene EXCEPT ![t] =
                        [mesh_groups |-> groups, material_keys |-> material_keys_of(groups)]]
    /\ pc' = [pc EXCEPT ![t] = "export"]
    /\ UNCHANGED <<canopyIn, canopyOut, config, points, plan, placements, glb, rngState, templates, files>>

\* save_mesh_groups_as_glb
Export(t) ==
    /\ pc[t] = "export"
    /\ glb' = [glb EXCEPT ![t] =
                  save_mesh_groups_as_glb(scene[t].mesh_groups, scene[t].material_keys)]
    /\ pc' = [pc EXCEPT ![t] = "done"]
    /\ UNCHANGED <<canopyIn, canopyOut, config, points, plan, placements, scene, rngState, templates, files>>

\* The response (the glb_url, or the error) is returned and the thread's locals are
\* dropped
Return(t) ==
    /\ pc[t] \in {"done", "cached", "error"}
    /\ pc' = [pc EXCEPT ![t] = "idle"]
    /\ config' = [config EXCEPT ![t] = NoConfig]
    /\ points' = [points EXCEPT ![t] = <<>>]
    /\ plan' = [plan EXCEPT ![t] = NoPlan]
    /\ placements' = [placements EXCEPT ![t] = <<>>]
    /\ scene' = [scene EXCEPT ![t] = NoScene]
    /\ glb' = [glb EXCEPT ![t] = <<>>]
    /\ rngState' = [rngState EXCEPT ![t] = 0]
    /\ UNCHANGED <<canopyIn, canopyOut, templates, files>>

Step(t) == BuildAndPlan(t) \/ PlaceNext(t) \/ Assemble(t) \/ Export(t) \/ Return(t)

\* One request at a time, any valid configuration
Next ==
    \/ Receive(1, Configs)
    \/ Step(1)

Spec == Init /\ [][Next]_vars

\* Concurrent requests
NextThreads ==
    \/ \E t \in Threads : Receive(t, SharedConfigs)
    \/ \E t \in Threads : Step(t)

SpecThreads == Init /\ [][NextThreads]_vars

-----------------------------------------------------------------------------
(* app/cache.py and app/api.py: generate_from_code with the output directory *)

\* canonicalize_config: model_dump without defaults_applied, a field the
\* configurations here do not carry
canonicalize_config(cfg) == cfg

\* hash_config: the SHA-256 of the canonical JSON text, taken as collision-free and
\* held as the text it digests
hash_config(cfg) == [sha256 |-> canonicalize_config(cfg)]

\* glb_exists: a file is at the hash path, whatever it holds
glb_exists(h) == h \in DOMAIN files

\* a stretch of a file that was skipped over and never written
HOLE == [hole |-> TRUE]

RECURSIVE write_at(_, _, _)
\* f.write(chunk) at the position of the k-th write, through a file object of its
\* own: the file is extended up to that position if it is shorter
write_at(file, k, chunk) ==
    IF Len(file) < k THEN write_at(Append(file, HOLE), k, chunk)
    ELSE [file EXCEPT ![k] = chunk]

\* open(output_path, "wb"): the file at the hash path is created or truncated
opened(dir, h) == [p \in DOMAIN dir \cup {h} |-> IF p = h THEN <<>> ELSE dir[p]]

\* Lines 22-30: the code is decoded, the configuration hashed, and the output
\* directory looked up
ApiReceive(t, configs) ==
    /\ pc[t] = "idle"
    /\ \E cfg \in configs :
          /\ config' = [config EXCEPT ![t] = cfg]
          /\ pc' = [pc EXCEPT ![t] = IF glb_exists(hash_config(cfg)) THEN "cached" ELSE "build"]
    /\ UNCHANGED <<canopyIn, canopyOut, points, plan, placements, scene, glb, rngState,
                   templates, files>>

\* save_mesh_groups_as_glb reaches line 162: the output file is opened for writing
ApiOpen(t) ==
    /\ pc[t] = "export"
    /\ files' = opened(files, hash_config(config[t]))
    /\ pc' = [pc EXCEPT ![t] = "write"]
    /\ UNCHANGED <<canopyIn, canopyOut, config, points, plan, placements, scene, glb,
                   rngState, templates>>

\* One of the five writes of lines 163-167; the file is closed after the last
ApiWrite(t) ==
    /\ pc[t] = "write"
    /\ LET k == Len(glb[t]) + 1
           chunk == save_mesh_groups_as_glb(scene[t].mesh_groups, scene[t].material_keys)[k]
           h == hash_config(config[t])
       IN  /\ glb' = [glb EXCEPT ![t] = Append(@, chunk)]
           /\ files' = IF h \in DOMAIN files
                        THEN [files EXCEPT ![h] = write_at(@, k, chunk)]
                        ELSE files
           /\ pc' = [pc EXCEPT ![t] = IF k = 5 THEN "done" ELSE "write"]
    /\ UNCHANGED <<canopyIn, canopyOut, config, points, plan, placements, scene,
                   rngState, templates>>

\* A write raises (the disk is full, the directory is gone): the except clause of
\* lines 34-35 turns it into an error response; what was written stays
ApiWriteFails(t) ==
    /\ pc[t] = "write"
    /\ pc' = [pc EXCEPT ![t] = "error"]
    /\ UNCHANGED <<canopyIn, canopyOut, config, points, plan, placements, scene, glb,
                   rngState, templates, files>>

\* the codes requests come with: a valid one-pendant cluster, a cluster whose second
\* pendant is a model the library does not have, and a cluster without pendants
ApiConfigs ==
    {ClusterConfig("s", "canopy_black", "cable_black", RING, 100, 300, ps, 0) :
        ps \in {<<[model |-> "alki", appearance |-> "shade_natural"]>>,
                 <<[model |-> "alki", appearance |-> "shade_natural"],
                   [model |-> "oliv", appearance |-> "shade_natural"]>>,
                 <<>>}}

\* Concurrent requests through generate_from_code
NextApi ==
    \/ \E t \in Threads : ApiReceive(t, ApiConfigs)
    \/ \E t \in Threads : BuildAndPlan(t)
    \/ \E t \in Threads : BuildFails(t)
    \/ \E t \in Threads : PlaceNext(t)
    \/ \E t \in Threads : Assemble(t)
    \/ \E t \in Threads : ApiOpen(t)
    \/ \E t \in Threads : ApiWrite(t)
    \/ \E t \in Threads : ApiWriteFails(t)
    \/ \E t \in Threads : Return(t)

SpecApi == Init /\ [][NextApi]_vars

\* the codes of a second valid cluster beside those of ApiConfigs
SerialConfigs ==
    ApiConfigs \cup
    {ClusterConfig("s", "canopy_black", "cable_black", RING, 100, 300,
                   <<[model |-> "denny", appearance |-> "shade_natural"]>>, 0)}

\* Requests through generate_from_code, one at a time
NextApiSerial ==
    \/ ApiReceive(1, SerialConfigs)
    \/ BuildAndPlan(1)
    \/ BuildFails(1)
    \/ PlaceNext(1)
    \/ Assemble(1)
    \/ ApiOpen(1)
    \/ ApiWrite(1)
    \/ ApiWriteFails(1)
    \/ Return(1)

SpecApiSerial == Init /\ [][NextApiSerial]_vars

\* A direct call of save_mesh_groups_as_glb by a caller that brings its own mesh
\* groups and material keys (every group's key is in the key list)
CallExport(t, mesh_groups, material_keys) ==
    /\ pc[t] = "idle"
    /\ \A k \in DOMAIN mesh_groups :
          \E j \in DOMAIN material_keys : material_keys[j] = mesh_groups[k].material_key
    /\ scene' = [scene EXCEPT ![t] =
                    [mesh_groups |-> mesh_groups, material_keys |-> material_keys]]
    /\ pc' = [pc EXCEPT ![t] = "export"]
    /\ UNCHANGED <<canopyIn, canopyOut, config, points, plan, placements, glb, rngState, templates, files>>

MaxGroups == 2

\* a mesh with triangles and quads, and a mesh without faces
ExportMeshes == {PendantFile("alki")[1], PendantFile("alki")[2]}

\* a key with a preset, a key without one, and a key that has one once stripped
ExportKeys == {"shade_white", "canopy_brass", "cable_black "}

ExportGroupLists ==
    UNION {[1..n -> [mesh : ExportMeshes, material_key : ExportKeys]] : n \in 0..MaxGroups}

ExportKeyLists == UNION {[1..n -> ExportKeys] : n \in 0..MaxGroups}

\* save_mesh_groups_as_glb alone, over mesh groups and key lists of any content
NextExport ==
    \/ \E mesh_groups \in ExportGroupLists, material_keys \in ExportKeyLists :
          CallExport(1, mesh_groups, material_keys)
    \/ Export(1)
    \/ Return(1)

SpecExport == Init /\ [][NextExport]_vars

\* build_canopy alone, over all sizes, topologies and pendant counts
MaxCanopyPendants == 12

NextCanopy ==
    \E size_key \in CanopySize, n \in 0..MaxCanopyPendants, ct \in ClusterType :
        CallBuildCanopy(size_key, n, ct)

SpecCanopy == Init /\ [][NextCanopy]_vars

-----------------------------------------------------------------------------
(* Claims about build_canopy, checked under SpecCanopy *)

CanopyN == canopyIn.n_pendants

CanopyRadius ==
    CANOPY_SPECS[canopyIn.size_key].inner_radius_mm
        - CANOPY_SPECS[canopyIn.size_key].cable_offset_mm

CanopyBaseZ == RInt(0 - CANOPY_SPECS[canopyIn.size_key].height_mm)

\* Point k (1-based) of `count` points evenly spaced on the attachment circle:
\* angle 2*pi*(k-1)/count
OnRingAt(p, k, count) == p.rad = CanopyRadius /\ p.turn = Rat(k - 1, count)

AtCenter(p) == p.rad = 0

\* C3: for N >= 1 and ring-with-center or random-ring, build_canopy returns N-1
\* points evenly spaced on the circle of radius (inner radius - cable offset),
\* followed by exactly one point at the canopy center, which is last; for N = 1
\* the sequence is the center point alone.
C3_RingThenCenter ==
    (CanopyN >= 1 /\ canopyIn.cluster_type \in {RING_WITH_CENTER, RANDOM_RING}) =>
        /\ Len(canopyOut) = CanopyN
        /\ \A k \in 1..(CanopyN - 1) : OnRingAt(canopyOut[k], k, CanopyN - 1)
        /\ AtCenter(canopyOut[CanopyN])
        /\ Cardinality({k \in DOMAIN canopyOut : AtCenter(canopyOut[k])}) = 1
        /\ (CanopyN = 1 => canopyOut = <<[rad |-> 0, turn |-> Rat(0, 1), Z |-> CanopyBaseZ]>>)

C3_Witness ==
    /\ canopyIn.cluster_type = RING_WITH_CENTER
    /\ CanopyN = 4
    /\ Len(canopyOut) = 4
    /\ canopyOut[3].turn = Rat(2, 3)
    /\ AtCenter(canopyOut[4])

\* C4: for every N and the ring-only topology, build_canopy returns exactly N
\* points, each at distance (inner radius - cable offset) from the axis, point i at
\* angle 2*pi*i/N in circumferential order, and none at the center.
C4_RingOnly ==
    canopyIn.cluster_type = RING =>
        /\ Len(canopyOut) = CanopyN
        /\ \A k \in 1..CanopyN : OnRingAt(canopyOut[k], k, CanopyN)
        /\ \A k \in DOMAIN canopyOut : ~AtCenter(canopyOut[k])

C4_Witness ==
    /\ canopyIn.cluster_type = RING
    /\ canopyIn.size_key = "m"
    /\ CanopyN = 5
    /\ canopyOut[5] = [rad |-> 250, turn |-> Rat(4, 5), Z |-> RInt(-40)]

\* C5: for every topology and N >= 1, build_canopy returns exactly N attachment
\* points, all with the Z coordinate of the canopy base (-height).
C5_LengthAndBaseZ ==
    CanopyN >= 1 =>
        /\ Len(canopyOut) = CanopyN
        /\ \A k \in DOMAIN canopyOut : canopyOut[k].Z = CanopyBaseZ

C5_Witness ==
    /\ CanopyN = 3
    /\ canopyIn.cluster_type = RANDOM_RING
    /\ Len(canopyOut) = 3
    /\ \A k \in 1..3 : canopyOut[k].Z = RInt(-40)

-----------------------------------------------------------------------------
(* Claims about the drop solver of place_pendants_then_plan_cables, checked *)
(* under Spec                                                              *)

Planned(t) == pc[t] \in {"place", "export", "done"}

NPendants(t) == Len(config[t].pendants)

TopExtent(t, i) == _pendant_extents(config[t].pendants[i].model).top

BottomExtent(t, i) == _pendant_extents(config[t].pendants[i].model).bottom

FirstDrop(t) == RInt(config[t].layout.first_drop_mm)

TotalDrop(t) == RInt(config[t].layout.total_drop_mm)

RECURSIVE PairSum(_, _, _)
\* sum over i in 1..k of bottomExtent(i) + topExtent(i+1) + extra
PairSum(t, k, extra) ==
    IF k = 0 THEN RInt(0)
    ELSE RAdd(PairSum(t, k - 1, extra),
              RAdd(RAdd(BottomExtent(t, k), TopExtent(t, k + 1)), extra))

OccupiedClearance(t) ==
    RAdd(RAdd(TopExtent(t, 1), BottomExtent(t, NPendants(t))),
         PairSum(t, NPendants(t) - 1, RInt(0)))

Slack(t) == RSub(RSub(TotalDrop(t), FirstDrop(t)), OccupiedClearance(t))

\* firstDrop + topExtent(0) + bottomExtent(N-1) + sum of (bottomExtent(i) +
\* topExtent(i+1) + gap), with the gap the planner computed
ConservationSum(t) ==
    RAdd(RAdd(RAdd(FirstDrop(t), TopExtent(t, 1)), BottomExtent(t, NPendants(t))),
         PairSum(t, NPendants(t) - 1, plan[t].gap))

\* C6 as stated: for N >= 1 and slack >= 0 the first drop, the extents and the gap
\* contributions add up to the total drop.
C6_ConservationForAllN ==
    \A t \in Threads :
        (Planned(t) /\ NPendants(t) >= 1 /\ RLeq(RInt(0), Slack(t))) =>
            ConservationSum(t) = TotalDrop(t)

\* C6 amended: the conservation law holds when slack >= 0 and there are at least two
\* pendants (the slack goes into the N-1 gaps), or one pendant and no slack.
C6_Conservation ==
    \A t \in Threads :
        (/\ Planned(t)
         /\ RLeq(RInt(0), Slack(t))
         /\ (NPendants(t) >= 2 \/ Slack(t) = RInt(0))) =>
            ConservationSum(t) = TotalDrop(t)

C6_Witness ==
    /\ Planned(1)
    /\ NPendants(1) = 3
    /\ Slack(1) = RInt(65)
    /\ plan[1].gap = Rat(65, 2)
    /\ ConservationSum(1) = RInt(300)

\* C7: with exactly one pendant the planner computes a gap of zero and the single
\* drop firstDropLength, and the suspension point is the attachment point lowered
\* by exactly firstDropLength, whatever the total drop and the pendant's extents.
C7_SinglePendant ==
    \A t \in Threads :
        (Planned(t) /\ NPendants(t) = 1) =>
            /\ plan[t].gap = RInt(0)
            /\ plan[t].drops = <<FirstDrop(t)>>
            /\ \A i \in DOMAIN placements[t] :
                /\ placements[t][i].start = points[t][1]
                /\ placements[t][i].end =
                      [rad |-> points[t][1].rad, turn |-> points[t][1].turn,
                       Z |-> RSub(points[t][1].Z, FirstDrop(t))]

C7_Witness ==
    /\ pc[1] = "done"
    /\ NPendants(1) = 1
    /\ config[1].pendants[1].model = "denny"
    /\ config[1].layout.first_drop_mm = 100
    /\ config[1].layout.total_drop_mm = 200
    /\ Len(placements[1]) = 1
    /\ placements[1][1].end.Z = RInt(-140)

\* Pendant i hangs clear of pendant i+1: the lowest point of i is not below the
\* highest point of i+1.
NoOverlap(t, i) ==
    RLeq(RAdd(plan[t].drops[i], BottomExtent(t, i)),
         RSub(plan[t].drops[i + 1], TopExtent(t, i + 1)))

\* C8 as stated: for every configuration the schema accepts, consecutive pendants
\* never overlap vertically.
C8_NeverOverlap ==
    \A t \in Threads :
        Planned(t) => \A i \in 1..(NPendants(t) - 1) : NoOverlap(t, i)

\* C8 amended: consecutive pendants never overlap vertically when the slack is >= 0.
C8_NoOverlapWithSlack ==
    \A t \in Threads :
        (Planned(t) /\ RLeq(RInt(0), Slack(t))) =>
            \A i \in 1..(NPendants(t) - 1) : NoOverlap(t, i)

C8_Witness ==
    /\ Planned(1)
    /\ NPendants(1) = 3
    /\ RLess(RInt(0), Slack(1))
    /\ RLess(RAdd(plan[1].drops[2], BottomExtent(1, 2)),
             RSub(plan[1].drops[3], TopExtent(1, 3)))

-----------------------------------------------------------------------------
(* Claims about cables, scene assembly and the exporter, checked under Spec *)

Assembled(t) == pc[t] \in {"export", "done"}

Exported(t) == pc[t] = "done"

\* start and end points coincide
Degenerate(pl) == pl.start = pl.end

NonDegenerate(t) == SelectSeq(placements[t], LAMBDA pl : ~Degenerate(pl))

IsCable(mesh) == mesh.geom.kind = "cylinder" /\ mesh.geom.segments = CABLE_SEGMENTS

CableGroups(t) == SelectSeq(scene[t].mesh_groups, LAMBDA g : IsCable(g.mesh))

\* the binary buffers of the container that hold the positions of a cable
ExportedCables(t) ==
    SelectSeq(glb[t][5].data, LAMBDA b : b.data.array = "positions" /\ IsCable(b.data.of))

\* mesh runs from the start point of pl over the length of its segment
CableAlong(mesh, pl) ==
    /\ mesh.geom.height = Rat(Abs(RSub(pl.end.Z, pl.start.Z).num), RSub(pl.end.Z, pl.start.Z).den)
    /\ mesh.xf[Len(mesh.xf)] =
          [op |-> "translate", rad |-> pl.start.rad, turn |-> pl.start.turn, Z |-> pl.start.Z]

\* one cable per non-degenerate placement, in placement order, in the scene and in
\* the exported container
OneCablePerSegment(t) ==
    /\ Len(CableGroups(t)) = Len(NonDegenerate(t))
    /\ \A k \in DOMAIN CableGroups(t) : CableAlong(CableGroups(t)[k].mesh, NonDegenerate(t)[k])
    /\ Exported(t) =>
          /\ Len(ExportedCables(t)) = Len(CableGroups(t))
          /\ \A k \in DOMAIN CableGroups(t) : ExportedCables(t)[k].data.of = CableGroups(t)[k].mesh

\* some mesh group of the scene holds a mesh of placement pl
PendantInScene(t, pl) ==
    \E k \in DOMAIN scene[t].mesh_groups, m \in DOMAIN pl.meshes :
        scene[t].mesh_groups[k].mesh = pl.meshes[m]

\* C9 as stated: a degenerate placement yields no cable mesh and does not appear in
\* the assembled scene; every other placement yields exactly one cable mesh, in
\* placement order.
C9_DegenerateAbsent ==
    \A t \in Threads :
        Assembled(t) =>
            /\ OneCablePerSegment(t)
            /\ \A i \in DOMAIN placements[t] :
                  Degenerate(placements[t][i]) => ~PendantInScene(t, placements[t][i])

\* C9 amended: a degenerate placement yields no cable mesh, so no cable of it is in
\* the scene or the container, while its pendant meshes are still part of the scene;
\* every other placement yields exactly one cable mesh, in placement order.
C9_DegenerateHasNoCable ==
    \A t \in Threads :
        Assembled(t) =>
            /\ OneCablePerSegment(t)
            /\ \A i \in DOMAIN placements[t] :
                  /\ Degenerate(placements[t][i]) =>
                        \A k \in DOMAIN CableGroups(t) :
                            ~CableAlong(CableGroups(t)[k].mesh, placements[t][i])
                  /\ PendantInScene(t, placements[t][i])

C9_Witness ==
    /\ Exported(1)
    /\ Len(placements[1]) = 3
    /\ ~Degenerate(placements[1][1])
    /\ ~Degenerate(placements[1][2])
    /\ Degenerate(placements[1][3])
    /\ Len(CableGroups(1)) = 2
    /\ Len(ExportedCables(1)) = 2
    /\ PendantInScene(1, placements[1][3])

\* the positions of seq whose element occurs at no earlier position
FirstSeen(seq) ==
    SelectSeq([k \in DOMAIN seq |-> [key |-> seq[k], first |-> \A j \in 1..(k - 1) : seq[j] # seq[k]]],
              LAMBDA e : e.first)

\* the material keys met when walking canopy bottom, canopy top, one cable per
\* non-degenerate placement, then every mesh of every placement in placement order
TraversalKeys(t) ==
    <<config[t].canopy.appearance, config[t].canopy.appearance>>
    \o [k \in DOMAIN NonDegenerate(t) |-> config[t].cable.appearance]
    \o Flatten([i \in DOMAIN placements[t] |->
                  [m \in DOMAIN placements[t][i].meshes |-> config[t].pendants[i].appearance]])

FirstUse(t, key) ==
    CHOOSE k \in DOMAIN scene[t].mesh_groups :
        /\ scene[t].mesh_groups[k].material_key = key
        /\ \A j \in 1..(k - 1) : scene[t].mesh_groups[j].material_key # key

\* C10: the material-key list holds each key used by some mesh group exactly once
\* and no other key, in the order of first occurrence over the traversal canopy,
\* cables, pendants in placement order.
C10_MaterialKeys ==
    \A t \in Threads :
        Assembled(t) =>
            LET keys == scene[t].material_keys
                groups == scene[t].mesh_groups
            IN  /\ \A i, j \in DOMAIN keys : i # j => keys[i] # keys[j]
                /\ {keys[i] : i \in DOMAIN keys} = {groups[k].material_key : k \in DOMAIN groups}
                /\ \A i, j \in DOMAIN keys : i < j => FirstUse(t, keys[i]) < FirstUse(t, keys[j])
                /\ keys = [i \in DOMAIN FirstSeen(TraversalKeys(t)) |-> FirstSeen(TraversalKeys(t))[i].key]

C10_Witness ==
    /\ Assembled(1)
    /\ Len(config[1].pendants) = 3
    /\ config[1].pendants[1].appearance = "shade_white"
    /\ config[1].pendants[2].appearance = "shade_natural"
    /\ config[1].pendants[3].appearance = "shade_white"
    /\ scene[1].material_keys = <<"canopy_white", "cable_black", "shade_white", "shade_natural">>

\* C2: the total-length field of the 12-byte header equals 12 + 8 + (padded JSON
\* chunk length) + 8 + (padded binary chunk length), which is the number of bytes
\* written, and both chunk lengths are multiples of 4.
C2_TotalLength ==
    \A t \in Threads :
        Exported(t) =>
            LET w == glb[t]
            IN  /\ Len(w) = 5
                /\ w[1].len = 12
                /\ w[1].data.length = 12 + 8 + w[3].len + 8 + w[5].len
                /\ w[1].data.length = w[1].len + w[2].len + w[3].len + w[4].len + w[5].len
                /\ w[2].data.length = w[3].len
                /\ w[4].data.length = w[5].len
                /\ w[3].len % 4 = 0
                /\ w[5].len % 4 = 0

C2_Witness ==
    /\ Exported(1)
    /\ glb[1][3].padding = 3
    /\ glb[1][5].len > 0
    /\ Len(scene[1].mesh_groups) > 4

-----------------------------------------------------------------------------
(* Claim about concurrent requests, checked under SpecThreads *)

\* C1: the exported container is a function of the configuration alone: two
\* requests with the same configuration (seed included) export identical bytes,
\* whatever ran before or is interleaved with them, and the module-level generator
\* is never seeded or drawn from.
C1_Deterministic ==
    /\ \A t, u \in Threads :
          (Exported(t) /\ Exported(u) /\ config[t] = config[u]) => glb[t] = glb[u]
    /\ rngState[GLOBAL] = 0

C1_Witness ==
    /\ Exported(1)
    /\ Exported(2)
    /\ config[1] = config[2]
    /\ config[1].layout.cluster_type = RANDOM_RING
    /\ Len(config[1].pendants) = 2
    /\ config[1].random_seed = 1
    /\ glb[1] = glb[2]
    /\ plan[1].indices = <<2, 1>>

-----------------------------------------------------------------------------
(* Claims about the assignment of pendants to attachment points, under Spec *)

Topology(t) == config[t].layout.cluster_type

PolarAngle(t, p) == atan2_turn(points[t][p])

IsPermutation(seq, n) ==
    /\ Len(seq) = n
    /\ \A p \in 1..n : Cardinality({i \in 1..n : seq[i] = p}) = 1

\* seq lists the points by increasing atan2(y, x); points of equal angle keep their
\* original order
AngularlySorted(t, seq) ==
    /\ IsPermutation(seq, NPendants(t))
    /\ \A i, j \in 1..NPendants(t) :
          i < j => \/ RLess(PolarAngle(t, seq[i]), PolarAngle(t, seq[j]))
                   \/ /\ PolarAngle(t, seq[i]) = PolarAngle(t, seq[j])
                      /\ seq[i] < seq[j]

AngularOrder(t) ==
    CHOOSE seq \in [1..NPendants(t) -> 1..NPendants(t)] : AngularlySorted(t, seq)

\* placement i carries pendant i and starts at the point the index order gives it
BoundInOrder(t) ==
    \A i \in DOMAIN placements[t] :
        /\ placements[t][i].pendant = config[t].pendants[i]
        /\ placements[t][i].start = points[t][plan[t].indices[i]]

\* C13: with more than one pendant the attachment points are ordered by increasing
\* atan2(y, x) before assignment; for ring and ring-with-center pendant i is bound to
\* the i-th point of that order; only for random-ring is the sorted order then
\* shuffled with the generator seeded from the configuration; with one pendant the
\* original point order is used.
C13_AngularAssignment ==
    \A t \in Threads :
        Planned(t) =>
            /\ BoundInOrder(t)
            /\ (NPendants(t) > 1 /\ Topology(t) \in {RING, RING_WITH_CENTER}) =>
                  AngularlySorted(t, plan[t].indices)
            /\ (NPendants(t) > 1 /\ Topology(t) = RANDOM_RING) =>
                  plan[t].indices =
                      shuffle(AngularOrder(t), NPendants(t), RngSeed(config[t].random_seed)).x
            /\ NPendants(t) = 1 => plan[t].indices = <<1>>

C13_Witness ==
    /\ Assembled(1)
    /\ Topology(1) = RING
    /\ NPendants(1) = 3
    /\ plan[1].indices = <<3, 1, 2>>
    /\ placements[1][1].start = points[1][3]
    /\ placements[1][1].pendant = config[1].pendants[1]

\* C18: the assignment is a bijection: N placements, placement i carries pendant i,
\* and every attachment point is the start point of exactly one placement, whether
\* the index order is the identity, the angular sort or the seeded shuffle.
C18_Bijection ==
    \A t \in Threads :
        Assembled(t) =>
            /\ Len(points[t]) = NPendants(t)
            /\ Len(placements[t]) = NPendants(t)
            /\ IsPermutation(plan[t].indices, NPendants(t))
            /\ \A i \in 1..NPendants(t) : placements[t][i].pendant = config[t].pendants[i]
            /\ \A p \in 1..NPendants(t) :
                  Cardinality({i \in 1..NPendants(t) : placements[t][i].start = points[t][p]}) = 1

C18_Witness ==
    /\ Assembled(1)
    /\ Topology(1) = RANDOM_RING
    /\ NPendants(1) = 3
    /\ plan[1].indices # AngularOrder(1)
    /\ plan[1].indices # <<1, 2, 3>>
    /\ {placements[1][i].start : i \in 1..3} = {points[1][p] : p \in 1..3}

-----------------------------------------------------------------------------
(* Claim about the order of the mesh groups, under Spec *)

RECURSIVE MeshCountBefore(_, _)
\* the number of pendant meshes of the placements before placement i
MeshCountBefore(t, i) ==
    IF i = 1 THEN 0 ELSE MeshCountBefore(t, i - 1) + Len(placements[t][i - 1].meshes)

\* C14: the mesh-group list is canopy bottom, canopy top, every cable mesh in
\* placement order, then for each placement in placement order all of that pendant's
\* meshes; canopy groups carry the canopy appearance, cable groups the cable
\* appearance, each pendant group the shade appearance of its own pendant.
C14_GroupOrder ==
    \A t \in Threads :
        Assembled(t) =>
            LET groups == scene[t].mesh_groups
                nc == Len(NonDegenerate(t))
                n == Len(placements[t])
            IN  /\ Len(groups) = 2 + nc + MeshCountBefore(t, n + 1)
                /\ groups[1] = [mesh |-> canopy_bottom(config[t].canopy.size),
                                material_key |-> config[t].canopy.appearance]
                /\ groups[2] = [mesh |-> canopy_top(config[t].canopy.size),
                                material_key |-> config[t].canopy.appearance]
                /\ \A k \in 1..nc :
                      /\ IsCable(groups[2 + k].mesh)
                      /\ CableAlong(groups[2 + k].mesh, NonDegenerate(t)[k])
                      /\ groups[2 + k].material_key = config[t].cable.appearance
                /\ \A i \in 1..n : \A m \in DOMAIN placements[t][i].meshes :
                      groups[2 + nc + MeshCountBefore(t, i) + m] =
                          [mesh |-> placements[t][i].meshes[m],
                           material_key |-> config[t].pendants[i].appearance]

C14_Witness ==
    /\ Assembled(1)
    /\ Len(placements[1]) = 3
    /\ config[1].pendants[1].model = "alki"
    /\ config[1].pendants[2].model = "denny"
    /\ config[1].pendants[1].appearance = "shade_white"
    /\ config[1].pendants[2].appearance = "shade_natural"
    /\ Len(NonDegenerate(1)) = 3
    /\ Len(scene[1].mesh_groups) = 2 + 3 + MeshCountBefore(1, 4)
    /\ scene[1].mesh_groups[8].material_key = "shade_natural"

-----------------------------------------------------------------------------
(* Claims about the content of the exported container *)

\* the number of indices of a mesh after face flattening: 3 per triangle, 6 per quad
IndexCount(mesh) == 3 * mesh.tri + 6 * mesh.quad

\* the mesh groups that are not dropped, in input order
Surviving(t) == SelectSeq(scene[t].mesh_groups, LAMBDA g : IndexCount(g.mesh) > 0)

\* the glTF document of the JSON chunk, and the buffers of the binary chunk
Gltf(t) == glb[t][3].data

BinBuffers(t) == glb[t][5].data

\* C15: mesh groups with zero indices are dropped and every remaining group maps to
\* one mesh with one primitive and one node, in input order: as many nodes and
\* meshes as surviving groups, node k references mesh k, the scene lists every node
\* once, and no primitive has an index accessor of count 0.
C15_OneNodePerSurvivingGroup ==
    \A t \in Threads :
        Exported(t) =>
            LET g == Gltf(t)
                n == Len(Surviving(t))
            IN  /\ Len(g.nodes) = n
                /\ Len(g.meshes) = n
                /\ g.scenes = [k \in 1..n |-> k - 1]
                /\ \A k \in 1..n :
                      /\ g.nodes[k].mesh = k - 1
                      /\ g.accessors[g.meshes[k].indices + 1].type = "SCALAR"
                      /\ g.accessors[g.meshes[k].indices + 1].count = IndexCount(Surviving(t)[k].mesh)
                      /\ g.accessors[g.meshes[k].indices + 1].count > 0
                      /\ g.accessors[g.meshes[k].POSITION + 1].count = Surviving(t)[k].mesh.nv
                      /\ g.accessors[g.meshes[k].TEXCOORD_0 + 1].count = Surviving(t)[k].mesh.nv
                      /\ BinBuffers(t)[3 * k - 2].data.of = Surviving(t)[k].mesh
                /\ \A a \in DOMAIN g.accessors : g.accessors[a].count > 0

C15_Witness ==
    /\ Exported(1)
    /\ Len(placements[1]) = 2
    /\ config[1].pendants[1].model = "alki"
    /\ config[1].pendants[2].model = "denny"
    /\ Len(scene[1].mesh_groups) = 7
    /\ IndexCount(scene[1].mesh_groups[6].mesh) = 0
    /\ Len(Gltf(1).nodes) = 6
    /\ Gltf(1).nodes[6].mesh = 5
    /\ BinBuffers(1)[16].data.of = scene[1].mesh_groups[7].mesh

RECURSIVE ViewLengthsBefore(_, _)
\* the sum of the byteLengths of the views emitted before view k
ViewLengthsBefore(views, k) ==
    IF k = 1 THEN 0 ELSE ViewLengthsBefore(views, k - 1) + views[k - 1].byteLength

\* C16: three buffer views per surviving mesh group (positions, UVs, indices), each
\* view's byteOffset is the sum of the byteLengths of the views before it, every
\* byteOffset and byteLength is a multiple of 4, and the buffer's declared
\* byteLength is the sum of all view byteLengths and the length of the binary chunk.
C16_OffsetBookkeeping ==
    \A t \in Threads :
        Exported(t) =>
            LET g == Gltf(t)
                views == g.bufferViews
            IN  /\ Len(views) = 3 * Len(Surviving(t))
                /\ \A k \in DOMAIN Surviving(t) :
                      /\ views[3 * k - 2].byteLength = 4 * 3 * Surviving(t)[k].mesh.nv
                      /\ views[3 * k - 1].byteLength = 4 * 2 * Surviving(t)[k].mesh.nv
                      /\ views[3 * k].byteLength = 4 * IndexCount(Surviving(t)[k].mesh)
                      /\ g.accessors[3 * k - 2].bufferView = 3 * k - 3
                      /\ g.accessors[3 * k - 1].bufferView = 3 * k - 2
                      /\ g.accessors[3 * k].bufferView = 3 * k - 1
                /\ \A k \in DOMAIN views :
                      /\ views[k].buffer = 0
                      /\ views[k].byteOffset = ViewLengthsBefore(views, k)
                      /\ views[k].byteOffset % 4 = 0
                      /\ views[k].byteLength % 4 = 0
                      /\ views[k].byteLength = BinBuffers(t)[k].len
                /\ g.buffers = ViewLengthsBefore(views, Len(views) + 1)
                /\ g.buffers = glb[t][5].len

C16_Witness ==
    /\ Exported(1)
    /\ Len(placements[1]) = 3
    /\ Len(Gltf(1).bufferViews) >= 18
    /\ Gltf(1).bufferViews[18].byteOffset > Gltf(1).bufferViews[17].byteOffset
    /\ Gltf(1).bufferViews[17].byteOffset > Gltf(1).bufferViews[16].byteOffset
    /\ Gltf(1).buffers = Gltf(1).bufferViews[Len(Gltf(1).bufferViews)].byteOffset
                          + Gltf(1).bufferViews[Len(Gltf(1).bufferViews)].byteLength

\* the preset of a key, or the fallback preset when the (stripped) key has none
PresetOrFallback(key) ==
    IF \E known \in DOMAIN MATERIAL_PRESETS : known = strip(key)
    THEN MATERIAL_PRESETS[strip(key)]
    ELSE MATERIAL_PRESETS["shade_natural"]

\* C17: the materials array has one record per entry of the material-key list, in
\* that list's order; every primitive's material index is a position of its mesh
\* group's key in the material-key list; a key with no preset gets the values of the
\* fallback preset.
C17_Materials ==
    \A t \in Threads :
        Exported(t) =>
            LET g == Gltf(t)
                keys == scene[t].material_keys
            IN  /\ Len(g.materials) = Len(keys)
                /\ \A k \in DOMAIN keys : g.materials[k] = PresetOrFallback(keys[k])
                /\ \A k \in DOMAIN Surviving(t) :
                      /\ g.meshes[k].material \in 0..(Len(keys) - 1)
                      /\ keys[g.meshes[k].material + 1] = Surviving(t)[k].material_key

C17_Witness ==
    /\ Exported(1)
    /\ scene[1].material_keys = <<"shade_white", "canopy_brass">>
    /\ Len(Surviving(1)) = 2
    /\ Surviving(1)[1].material_key = "canopy_brass"
    /\ Surviving(1)[2].material_key = "shade_white"
    /\ Gltf(1).materials[1].name = "ShadeWhite"
    /\ Gltf(1).materials[2].name = "ShadeNatural"
    /\ Gltf(1).meshes[1].material = 1
    /\ Gltf(1).meshes[2].material = 0

-----------------------------------------------------------------------------
(* Claim about the template cache, checked under SpecThreads *)

\* mesh is the template with exactly the twist and the translation of its own
\* placement applied, and nothing else
PlacedFromPristine(pl, k) ==
    LET mesh == pl.meshes[k]
    IN  /\ [mesh EXCEPT !.xf = <<>>] = PendantFile(pl.pendant.model)[k]
        /\ Len(mesh.xf) = 2
        /\ mesh.xf[1].op = "rotate_z"
        /\ mesh.xf[2] = Translation(pl.end.rad, pl.end.turn, pl.end.Z)

\* C11: the memoized templates are never mutated: whatever calls ran or are
\* interleaved, every stored template equals its value when loaded, and every placed
\* mesh carries the twist and translation of its own placement only.
C11_TemplatesImmutable ==
    /\ \A model_key \in PendantModels :
          templates[model_key] \in {NotLoaded, PendantFile(model_key)}
    /\ \A t \in Threads : \A i \in DOMAIN placements[t] :
          /\ Len(placements[t][i].meshes) = Len(PendantFile(placements[t][i].pendant.model))
          /\ \A k \in DOMAIN placements[t][i].meshes : PlacedFromPristine(placements[t][i], k)

C11_Witness ==
    /\ pc[1] = "place"
    /\ pc[2] = "place"
    /\ Len(placements[1]) = 2
    /\ Len(placements[2]) = 1
    /\ config[1].pendants[1].model = config[1].pendants[2].model
    /\ config[2].pendants[1].model = config[1].pendants[1].model
    /\ placements[1][1].meshes[1].xf # placements[2][1].meshes[1].xf
    /\ templates["alki"] = PendantFile("alki")

-----------------------------------------------------------------------------
(* Claims about generate_from_code and the output directory, under SpecApiSerial *)
(* and SpecApi                                                                  *)

InRequest(t) == pc[t] # "idle"

\* the configuration names a pendant model the library does not have, or no pendant
Inconsistent(cfg) ==
    \/ Len(cfg.pendants) = 0
    \/ \E i \in DOMAIN cfg.pendants : cfg.pendants[i].model \notin PendantModels

\* C12: a request whose configuration is inconsistent (a pendant model key that is
\* not in the library) fails with an error returned to the caller: it never gets
\* past the build, and no file, complete or partial, is at its hash path.
C12_FailsWithoutFile ==
    \A t \in Threads :
        (InRequest(t) /\ Inconsistent(config[t])) =>
            /\ pc[t] \in {"build", "error"}
            /\ ~glb_exists(hash_config(config[t]))
            /\ placements[t] = <<>>
            /\ scene[t] = NoScene
            /\ glb[t] = <<>>

C12_Witness ==
    /\ pc[1] = "error"
    /\ Len(config[1].pendants) = 2
    /\ config[1].pendants[2].model = "oliv"
    /\ templates["alki"] # NotLoaded
    /\ templates["denny"] = NotLoaded
    /\ ~glb_exists(hash_config(config[1]))
    /\ DOMAIN files = {}

\* the file holds the five parts of a container, none missing, and its header gives
\* its length
IsComplete(file) ==
    /\ Len(file) = 5
    /\ \A k \in 1..5 : file[k] # HOLE
    /\ file[1].data.length = file[1].len + file[2].len + file[3].len + file[4].len + file[5].len

\* some request has the file at h open for writing
BeingWritten(h) == \E t \in Threads : pc[t] = "write" /\ hash_config(config[t]) = h

\* C19: whenever a request returns a glb_url for hash h, the file at h's path holds a
\* complete container, and a file at a hash path that no request is writing is never
\* a partially written one.
C19_ReturnedFileComplete ==
    /\ \A t \in Threads :
          pc[t] \in {"done", "cached"} =>
              /\ glb_exists(hash_config(config[t]))
              /\ IsComplete(files[hash_config(config[t])])
    /\ \A h \in DOMAIN files : ~BeingWritten(h) => IsComplete(files[h])

====
